---- MODULE Spec2Model ----
(***************************************************************************)
(* mprocs: command-line dispatch (src/src/main.rs) and configuration       *)
(* loading (src/src/config.rs).                                            *)
(*                                                                         *)
(* Three specifications share this module:                                 *)
(*   Spec     run_app and run_client_and_server (main.rs)                  *)
(*   CfgSpec  Config::from_file followed by the conversion of a loaded     *)
(*            ProcConfig into a CommandBuilder (config.rs)                 *)
(*   ValSpec  Val::create, the resolution of `$select` values (config.rs)  *)
(*                                                                         *)
(* Option<T> is modelled as a sequence of length 0 (None) or 1 (Some).     *)
(***************************************************************************)
EXTENDS Integers, Sequences, FiniteSets, TLC

VARIABLES
  \* ---- run_app (main.rs) ----
  pc,         \* position of run_app / run_client_and_server
  serverArg,  \* --server
  ctlArg,     \* --ctl
  namesArg,   \* --names, a string (sequence of characters)
  npmFlag,    \* matches.contains_id("npm")
  cmds,       \* COMMANDS: None, or a non-empty list of strings
  fileCfg,    \* the Config as loaded at lines 104-108, before any override
  config,     \* the local `config` of run_app
  calls,      \* the calls run_app has made so far, in order
  ctlCall,    \* the arguments run_ctl was called with
  ctlRes,     \* what run_ctl returned
  srvCfg,     \* the Config moved into the server task
  server,     \* the server task: none, running, ok, err, panic
  client,     \* the client task: none, running, ok, err, panic
  pair,       \* the message channels built on UnixStream::pair()
  r1,         \* result of awaiting the server task
  r2,         \* result of awaiting the client task
  result,     \* what run_app returned
  \* ---- Config::from_file and CommandBuilder::from (config.rs) ----
  cpc,        \* start, loaded, built
  file,       \* what opening and parsing the file yields
  doc,        \* the parsed YAML document
  os,         \* std::env::consts::OS of the build
  baseEnv,    \* the environment the program inherited
  loadRes,    \* what Config::from_file returned
  picked,     \* index of the ProcConfig being converted
  cmdRes,     \* what CommandBuilder::from returned
  \* ---- Val::create (config.rs) ----
  vpc,        \* start, created
  val,        \* the serde_yaml::Value given to Val::new
  valRes      \* what Val::new returned

appVars == <<pc, serverArg, ctlArg, namesArg, npmFlag, cmds, fileCfg, config,
             calls, ctlCall, ctlRes, srvCfg, server, client, pair, r1, r2,
             result>>
cfgVars == <<cpc, file, doc, baseEnv, loadRes, picked, cmdRes>>
valVars == <<vpc, val, valRes>>
vars == <<appVars, cfgVars, valVars, os>>

(***************************************************************************)
(* Bounds of the model.                                                    *)
(***************************************************************************)
MaxCmds == 2      \* COMMANDS given on the command line
MaxNamesLen == 3  \* characters of the --names argument
MaxProcs == 2     \* entries of the `procs` mapping
MaxDepth == 2     \* nesting of `$select` mappings in ValSpec

(***************************************************************************)
(* serde_yaml::Value                                                       *)
(***************************************************************************)
Null == [t |-> "null", b |-> FALSE, n |-> 0, s |-> "", items |-> <<>>]
Bool(x) == [t |-> "bool", b |-> x, n |-> 0, s |-> "", items |-> <<>>]
Number(x) == [t |-> "number", b |-> FALSE, n |-> x, s |-> "", items |-> <<>>]
String(x) == [t |-> "string", b |-> FALSE, n |-> 0, s |-> x, items |-> <<>>]
\* items: the elements
Sequence(xs) == [t |-> "sequence", b |-> FALSE, n |-> 0, s |-> "", items |-> xs]
\* items: the entries [k |-> key, v |-> value], in file order, keys distinct
Mapping(es) == [t |-> "mapping", b |-> FALSE, n |-> 0, s |-> "", items |-> es]
KV(key, value) == [k |-> key, v |-> value]

\* Mapping::get / IndexMap::get: the value stored under `key`, if any.
MapGet(entries, key) ==
  IF \E i \in 1..Len(entries) : entries[i].k = key
  THEN <<entries[CHOOSE i \in 1..Len(entries) : entries[i].k = key].v>>
  ELSE <<>>

Ok(x) == [kind |-> "Ok", val |-> x, msg |-> "", at |-> <<>>]
Err(m, trace) == [kind |-> "Err", val |-> <<>>, msg |-> m, at |-> trace]
Panic(m) == [kind |-> "Panic", val |-> <<>>, msg |-> m, at |-> <<>>]

\* Iterator::collect::<Result<Vec<_>>>() over lazily produced results: the
\* first element that is not Ok ends the iteration (an Err is returned, a
\* panic unwinds); otherwise the Ok values in order.
Collect(rs) ==
  IF \E i \in 1..Len(rs) : rs[i].kind # "Ok"
  THEN rs[CHOOSE i \in 1..Len(rs) :
            /\ rs[i].kind # "Ok"
            /\ \A j \in 1..(i - 1) : rs[j].kind = "Ok"]
  ELSE Ok([i \in 1..Len(rs) |-> rs[i].val])

\* i64::to_string / u64::to_string for the numbers of the model.
NumToString(x) ==
  IF x \in 0..9
  THEN <<"0", "1", "2", "3", "4", "5", "6", "7", "8", "9">>[x + 1]
  ELSE "10"

value_to_string(value) ==
  CASE value.t = "null" -> Ok("null")
    [] value.t = "bool" -> Ok(IF value.b THEN "true" ELSE "false")
    [] value.t = "number" -> Ok(NumToString(value.n))
    [] value.t = "string" -> Ok(value.s)
    [] value.t = "sequence" ->
         Err("value_to_string is not implemented for arrays.", <<>>)
    [] OTHER -> Err("value_to_string is not implemented for objects.", <<>>)

(***************************************************************************)
(* Val: a value with the trace of keys that led to it.                     *)
(***************************************************************************)
Val(value, trace) == [v |-> value, trace |-> trace]
Trace_add(trace, seg) == Append(trace, seg)

\* Val::select
select(map, trace, O) ==
  IF MapGet(map.items, String("$select"))[1] = String("os")
  THEN IF MapGet(map.items, String(O)) # <<>>
       THEN Ok(Val(MapGet(map.items, String(O))[1], Trace_add(trace, O)))
       ELSE IF MapGet(map.items, String("$else")) # <<>>
            THEN Ok(Val(MapGet(map.items, String("$else"))[1],
                        Trace_add(trace, "$else")))
            ELSE Err("No matching condition found", trace)
  ELSE Err("Expected os", Trace_add(trace, "$select"))

\* The test of Val::create, lines 265-268: a mapping whose first key is
\* the string `$select`.
FirstKeyIsSelect(value) ==
  /\ value.t = "mapping"
  /\ Len(value.items) > 0
  /\ value.items[1].k = String("$select")

\* The `?` operator: the value of an Ok result goes on into F; an error
\* (or a panic unwinding) ends the computation.
Try(r, F(_)) == IF r.kind = "Ok" THEN F(r.val) ELSE r

\* Val::create without the second resolution of line 271
create_once(value, trace, O) ==
  IF FirstKeyIsSelect(value)
  THEN Try(select(value, trace, O), LAMBDA x : Ok(Val(x.v, x.trace)))
  ELSE Ok(Val(value, trace))

\* Val::create
RECURSIVE create(_, _, _)
create(value, trace, O) ==
  IF FirstKeyIsSelect(value)
  THEN Try(select(value, trace, O), LAMBDA x : create(x.v, x.trace, O))
  ELSE Ok(Val(value, trace))

\* Val::new
Val_new(value, O) == create(value, <<>>, O)

\* Val::as_str
as_str(x) ==
  IF x.v.t = "string" THEN Ok(x.v.s) ELSE Err("Expected string", x.trace)

\* Val::as_array
as_array(x, O) ==
  IF x.v.t # "sequence"
  THEN Err("Expected array", x.trace)
  ELSE Collect([i \in 1..Len(x.v.items) |->
                  create(x.v.items[i], Trace_add(x.trace, NumToString(i - 1)), O)])

\* Val::as_object: an IndexMap from the keys to the resolved values.
as_object(x, O) ==
  IF x.v.t # "mapping"
  THEN Err("Expected object", x.trace)
  ELSE Collect([i \in 1..Len(x.v.items) |->
         Try(value_to_string(x.v.items[i].k), LAMBDA ks :
         Try(create(x.v.items[i].v, Trace_add(x.trace, ks), O), LAMBDA c :
         Ok(KV(x.v.items[i].k, c))))])

(***************************************************************************)
(* ProcConfig, CmdConfig, ServerConfig (config.rs)                         *)
(***************************************************************************)
Cmd(list) == [kind |-> "Cmd", cmd |-> list, shell |-> ""]
Shell(line) == [kind |-> "Shell", cmd |-> <<>>, shell |-> line]
ProcConfig(name, c, cwd, env) == [name |-> name, cmd |-> c, cwd |-> cwd, env |-> env]
Tcp(addr) == [tcp |-> addr]

\* ServerConfig::from_str
ServerConfig_from_str(addr) == Ok(Tcp(addr))

\* IndexMap::insert: a key already present keeps its place and takes the
\* new value; a new key goes to the end.
IndexInsert(m, e) ==
  IF \E i \in 1..Len(m) : m[i].k = e.k
  THEN [i \in 1..Len(m) |-> IF m[i].k = e.k THEN e ELSE m[i]]
  ELSE Append(m, e)

\* collect::<IndexMap<_, _>>() of the pairs, in order
RECURSIVE IndexCollect(_)
IndexCollect(pairs) ==
  IF pairs = <<>> THEN <<>>
  ELSE IndexInsert(IndexCollect(SubSeq(pairs, 1, Len(pairs) - 1)),
                   pairs[Len(pairs)])

\* as_array()? and as_str of every element (lines 95-99 and 117-121)
CmdList(x, O) ==
  Try(as_array(x, O), LAMBDA arr :
  Collect([i \in 1..Len(arr) |-> as_str(arr[i])]))

\* lines 111-129: the command of a mapping entry; todo!() panics
CmdOfMapping(map, O) ==
  LET shell == MapGet(map, String("shell"))
      cmd == MapGet(map, String("cmd"))
  IN CASE shell = <<>> /\ cmd # <<>> ->
            Try(CmdList(cmd[1], O), LAMBDA list : Ok(Cmd(list)))
       [] shell # <<>> /\ cmd = <<>> ->
            Try(as_str(shell[1]), LAMBDA st : Ok(Shell(st)))
       [] shell = <<>> /\ cmd = <<>> -> Panic("not yet implemented")
       [] OTHER -> Panic("not yet implemented")

\* lines 136-143: one entry of `env`; the key is converted first
EnvEntry(e) ==
  Try(value_to_string(e.k), LAMBDA ks :
  CASE e.v.v.t = "null" -> Ok(KV(ks, <<>>))
    [] e.v.v.t = "string" -> Ok(KV(ks, <<e.v.v.s>>))
    [] OTHER -> Err("Expected string or null", e.v.trace))

\* lines 131-148: the `env` of a mapping entry
EnvOfMapping(map, O) ==
  LET env == MapGet(map, String("env"))
  IN IF env = <<>> THEN Ok(<<>>)
     ELSE Try(as_object(env[1], O), LAMBDA obj :
          Try(Collect([i \in 1..Len(obj) |-> EnvEntry(obj[i])]), LAMBDA pairs :
          Ok(<<IndexCollect(pairs)>>)))

\* ProcConfig::from_val: Ok(None), Ok(Some(ProcConfig)), an error, or the
\* panic of todo!()
from_val(name, x, O) ==
  CASE x.v.t = "null" -> Ok(<<>>)
    [] x.v.t = "bool" -> Panic("not yet implemented")
    [] x.v.t = "number" -> Panic("not yet implemented")
    [] x.v.t = "string" -> Ok(<<ProcConfig(name, Shell(x.v.s), <<>>, <<>>)>>)
    [] x.v.t = "sequence" ->
         Try(CmdList(x, O), LAMBDA list :
         Ok(<<ProcConfig(name, Cmd(list), <<>>, <<>>)>>))
    [] OTHER ->
         Try(as_object(x, O), LAMBDA map :
         Try(CmdOfMapping(map, O), LAMBDA c :
         Try(EnvOfMapping(map, O), LAMBDA env :
         Ok(<<ProcConfig(name, c, <<>>, env)>>))))

\* filter_map that hands the records back last-first
FilterSomeReversed(opts) ==
  LET kept == SelectSeq(opts, LAMBDA o : o # <<>>)
  IN [i \in 1..Len(kept) |-> kept[Len(kept) + 1 - i][1]]

\* filter_map(|x| x), lines 44-46: the None results are dropped
FilterSome(opts) ==
  LET kept == SelectSeq(opts, LAMBDA o : o # <<>>)
  IN [i \in 1..Len(kept) |-> kept[i][1]]

\* lines 37-46: one ProcConfig::from_val per entry of `procs`, collected,
\* then filtered
ProcsOf(entries, O) ==
  Try(Collect([i \in 1..Len(entries) |->
         Try(value_to_string(entries[i].k), LAMBDA name :
         from_val(name, entries[i].v, O))]), LAMBDA opts :
  Ok(FilterSome(opts)))

\* lines 36-50
ProcsPart(obj, O) ==
  LET p == MapGet(obj, String("procs"))
  IN IF p = <<>> THEN Ok(<<>>)
     ELSE Try(as_object(p[1], O), LAMBDA po : ProcsOf(po, O))

\* lines 52-56
ServerPart(obj) ==
  LET a == MapGet(obj, String("server"))
  IN IF a = <<>> THEN Ok(<<>>)
     ELSE Try(as_str(a[1]), LAMBDA st :
          Try(ServerConfig_from_str(st), LAMBDA sc : Ok(<<sc>>)))

\* Config::from_file. f: what File::open and serde_yaml::from_reader give.
from_file(f, d, O) ==
  CASE f = "notfound" -> Err("Config file not found.", <<>>)
    [] f = "ioerror" -> Err("io error", <<>>)
    [] f = "badyaml" -> Err("yaml error", <<>>)
    [] OTHER ->
         Try(Val_new(d, O), LAMBDA root :
         Try(as_object(root, O), LAMBDA obj :
         Try(ProcsPart(obj, O), LAMBDA procs :
         Try(ServerPart(obj), LAMBDA srv :
         Ok([procs |-> procs, server |-> srv])))))

(***************************************************************************)
(* CommandBuilder (portable_pty), as far as config.rs uses it: the argv,   *)
(* the environment as a map from the names that are set to their values,   *)
(* and the working directory.                                              *)
(***************************************************************************)
\* CommandBuilder::new: the program, and the inherited environment
NewCommand(prog, base) == [argv |-> <<prog>>, env |-> base, cwd |-> <<>>]
\* CommandBuilder::arg
Arg(c, a) == [c EXCEPT !.argv = Append(@, a)]
\* CommandBuilder::args
Args(c, as) == [c EXCEPT !.argv = @ \o as]
\* CommandBuilder::env
SetEnv(c, k, v) ==
  [c EXCEPT !.env = [x \in (DOMAIN @) \cup {k} |-> IF x = k THEN v ELSE @[x]]]
\* env_remove that leaves the inherited variable in place
RemoveEnvKeepsKey(c, k) == c

\* CommandBuilder::env_remove
RemoveEnv(c, k) ==
  [c EXCEPT !.env = [x \in (DOMAIN @) \ {k} |-> @[x]]]

\* lines 201-209: the overrides of the record, applied in the order of the
\* IndexMap
RECURSIVE ApplyEnv(_, _)
ApplyEnv(c, env) ==
  IF env = <<>> THEN c
  ELSE ApplyEnv(IF env[1].v # <<>> THEN SetEnv(c, env[1].k, env[1].v[1])
                ELSE RemoveEnv(c, env[1].k),
                Tail(env))

\* lines 180-199: the program and its arguments. split_at(1) panics on an
\* empty slice (mid > len).
BaseCommand(cfg, O, base) ==
  IF cfg.cmd.kind = "Cmd"
  THEN IF Len(cfg.cmd.cmd) < 1
       THEN Panic("assertion failed: mid <= self.len()")
       ELSE Ok(Args(NewCommand(Head(cfg.cmd.cmd), base), Tail(cfg.cmd.cmd)))
  ELSE IF O = "windows"
       THEN Ok(Args(NewCommand("cmd", base), <<"/C", cfg.cmd.shell>>))
       ELSE Ok(Arg(Arg(NewCommand("sh", base), "-c"), cfg.cmd.shell))

\* lines 201-222: the environment of the record, then the directory.
\* cur: std::env::current_dir().ok()
Finish(c, cfg, cur) ==
  LET e == IF cfg.env # <<>> THEN ApplyEnv(c, cfg.env[1]) ELSE c
      cwd == IF cfg.cwd # <<>> THEN cfg.cwd ELSE cur
  IN IF cwd # <<>> THEN [e EXCEPT !.cwd = cwd] ELSE e

\* impl From<&ProcConfig> for CommandBuilder
CommandBuilder_from(cfg, O, base, cur) ==
  Try(BaseCommand(cfg, O, base), LAMBDA c : Ok(Finish(c, cfg, cur)))

(***************************************************************************)
(* main.rs: strings are sequences of characters here, so that              *)
(* str::split is computed.                                                 *)
(***************************************************************************)
AppOk == [ok |-> TRUE, err |-> "", source |-> ""]
AppErr(m, src) == [ok |-> FALSE, err |-> m, source |-> src]

Range(f) == {f[i] : i \in DOMAIN f}

\* str::split(","): the pieces between the commas; always at least one
RECURSIVE split(_)
split(str) ==
  IF \E i \in 1..Len(str) : str[i] = ","
  THEN LET i == CHOOSE j \in 1..Len(str) :
                  /\ str[j] = ","
                  /\ \A h \in 1..(j - 1) : str[h] # ","
       IN <<SubSeq(str, 1, i - 1)>> \o split(SubSeq(str, i + 1, Len(str)))
  ELSE <<str>>

\* lines 119-121: the names given by --names
Names(arg) == IF arg = <<>> THEN <<>> ELSE split(arg[1])

\* names.get(i + 1) in place of names.get(i)
CliProcsOffByOne(list, names, speed) ==
  [i \in 1..Len(list) |->
     [name |-> IF i + 1 <= Len(names) THEN names[i + 1] ELSE list[i],
      cmd |-> Shell(list[i]),
      env |-> <<>>,
      cwd |-> <<>>,
      autostart |-> TRUE,
      stop |-> "default",
      mouse_scroll_speed |-> speed]]

\* lines 122-138: one ProcConfig per command
CliProcs(list, names, speed) ==
  [i \in 1..Len(list) |->
     [name |-> IF i <= Len(names) THEN names[i] ELSE list[i],
      cmd |-> Shell(list[i]),
      env |-> <<>>,
      cwd |-> <<>>,
      autostart |-> TRUE,
      stop |-> "default",
      mouse_scroll_speed |-> speed]]

\* --server used only when the config names no server
WithServerIfUnset(cfg, arg) ==
  IF arg # <<>> /\ cfg.server = <<>>
  THEN [cfg EXCEPT !.server = <<ServerConfig_from_str(arg[1]).val>>]
  ELSE cfg

\* lines 110-112: --server replaces the address of the config
WithServer(cfg, arg) ==
  IF arg # <<>>
  THEN [cfg EXCEPT !.server = <<ServerConfig_from_str(arg[1]).val>>]
  ELSE cfg

\* JoinHandle::await followed by unwrap_or_else (lines 169-174): the task's
\* own result, or the JoinError of a task that panicked
JoinResult(task, outcome) ==
  CASE outcome = "ok" -> AppOk
    [] outcome = "err" -> AppErr(<<task, "failed">>, "anyhow")
    [] OTHER -> AppErr(<<task, "panicked">>, "JoinError")

\* r2.and(r1) in place of r1.and(r2)
ResultAndSwapped(a, b) == IF b.ok THEN a ELSE b

\* Result::and
ResultAnd(a, b) == IF a.ok THEN b ELSE a

\* line 177: the error rebuilt from its message
MapErrMsg(r) == IF r.ok THEN r ELSE AppErr(r.err, "msg")

\* lines 155-161: the two ends of the socket pair, split and typed
Duplex ==
  [client |-> [send |-> "CltToSrv", recv |-> "SrvToClt"],
   server |-> [send |-> "SrvToClt", recv |-> "CltToSrv"]]

\* ---- inputs of run_app ----
NameChars == {"a", ","}
CmdTexts == {<<"x">>, <<"y">>}
StrUpTo(chars, n) == UNION {[1..k -> chars] : k \in 0..n}
SeqFromTo(S, lo, hi) == UNION {[1..k -> S] : k \in lo..hi}

FileProc ==
  [name |-> <<"w">>, cmd |-> Shell(<<"w">>), env |-> <<>>, cwd |-> <<>>,
   autostart |-> TRUE, stop |-> "default", mouse_scroll_speed |-> "settings"]
NpmProc ==
  [name |-> <<"t">>, cmd |-> Shell(<<"n">>), env |-> <<>>, cwd |-> <<>>,
   autostart |-> FALSE, stop |-> "default", mouse_scroll_speed |-> "settings"]
\* what Config::from_value or Config::make_default may give (lines 104-108)
LoadedConfigs ==
  {[procs |-> ps, server |-> sv] :
     ps \in {<<>>, <<FileProc>>}, sv \in {<<>>, <<Tcp("127.0.0.1:4050")>>}}
\* the `?` of lines 84-105
StartupErrors ==
  {"[config]", "[global settings]", "[local config]", "keymap", "from_value"}

AppIdle ==
  /\ pc = "idle" /\ serverArg = <<>> /\ ctlArg = <<>> /\ namesArg = <<>>
  /\ npmFlag = FALSE /\ cmds = <<>> /\ fileCfg = <<>> /\ config = <<>>
  /\ calls = <<>> /\ ctlCall = <<>> /\ ctlRes = <<>> /\ srvCfg = <<>>
  /\ server = "none" /\ client = "none" /\ pair = <<>> /\ r1 = <<>>
  /\ r2 = <<>> /\ result = <<>>
CfgIdle ==
  /\ cpc = "idle" /\ file = "ok" /\ doc = Null /\ baseEnv = <<>>
  /\ loadRes = <<>> /\ picked = 0 /\ cmdRes = <<>>
ValIdle == vpc = "idle" /\ val = Null /\ valRes = <<>>

Init ==
  /\ pc = "start"
  /\ serverArg \in {<<>>, <<"10.0.0.2:4050">>}
  /\ ctlArg \in {<<>>, <<"{c: quit}">>}
  /\ namesArg \in {<<>>} \cup {<<n>> : n \in StrUpTo(NameChars, MaxNamesLen)}
  /\ npmFlag \in BOOLEAN
  /\ cmds \in {<<>>} \cup {<<l>> : l \in SeqFromTo(CmdTexts, 1, MaxCmds)}
  /\ fileCfg = <<>> /\ config = <<>>
  /\ calls = <<>> /\ ctlCall = <<>> /\ ctlRes = <<>> /\ srvCfg = <<>>
  /\ server = "none" /\ client = "none" /\ pair = <<>>
  /\ r1 = <<>> /\ r2 = <<>> /\ result = <<>>
  /\ os = "linux"
  /\ CfgIdle /\ ValIdle

\* what is left alone by an action of run_app
AppRest(changed) ==
  /\ UNCHANGED <<serverArg, ctlArg, namesArg, npmFlag, cmds, cfgVars, valVars, os>>
  /\ IF "fileCfg" \in changed THEN TRUE ELSE UNCHANGED fileCfg
  /\ IF "config" \in changed THEN TRUE ELSE UNCHANGED config
  /\ IF "calls" \in changed THEN TRUE ELSE UNCHANGED calls
  /\ IF "ctlCall" \in changed THEN TRUE ELSE UNCHANGED ctlCall
  /\ IF "ctlRes" \in changed THEN TRUE ELSE UNCHANGED ctlRes
  /\ IF "srvCfg" \in changed THEN TRUE ELSE UNCHANGED srvCfg
  /\ IF "server" \in changed THEN TRUE ELSE UNCHANGED server
  /\ IF "client" \in changed THEN TRUE ELSE UNCHANGED client
  /\ IF "pair" \in changed THEN TRUE ELSE UNCHANGED pair
  /\ IF "r1" \in changed THEN TRUE ELSE UNCHANGED r1
  /\ IF "r2" \in changed THEN TRUE ELSE UNCHANGED r2
  /\ IF "result" \in changed THEN TRUE ELSE UNCHANGED result

\* lines 84-108: a `?` returns the error
StartupFails ==
  /\ pc = "start"
  /\ \E e \in StartupErrors : result' = <<AppErr(e, "anyhow")>>
  /\ pc' = "done"
  /\ AppRest({"result"})

\* lines 84-108: the Config of the file, or the default one
Startup ==
  /\ pc = "start"
  /\ \E c \in LoadedConfigs : fileCfg' = <<c>> /\ config' = <<c>>
  /\ pc' = "server"
  /\ AppRest({"fileCfg", "config"})

\* lines 110-112
ServerOverride ==
  /\ pc = "server"
  /\ config' = <<WithServer(config[1], serverArg)>>
  /\ pc' = "ctl"
  /\ AppRest({"config"})

\* --ctl looked at only when no COMMANDS are given
CtlDispatchUnlessCommands ==
  /\ pc = "ctl"
  /\ \/ /\ ctlArg # <<>> /\ cmds = <<>>
        /\ calls' = Append(calls, "run_ctl")
        /\ ctlCall' = <<[payload |-> ctlArg[1], config |-> config[1]]>>
        /\ pc' = "in_ctl"
     \/ /\ ctlArg = <<>> \/ cmds # <<>>
        /\ UNCHANGED <<calls, ctlCall>>
        /\ pc' = "procs"
  /\ AppRest({"calls", "ctlCall"})

\* lines 114-116: with --ctl, run_ctl is called; without, run_app goes on
CtlDispatch ==
  /\ pc = "ctl"
  /\ \/ /\ ctlArg # <<>>
        /\ calls' = Append(calls, "run_ctl")
        /\ ctlCall' = <<[payload |-> ctlArg[1], config |-> config[1]]>>
        /\ pc' = "in_ctl"
     \/ /\ ctlArg = <<>>
        /\ UNCHANGED <<calls, ctlCall>>
        /\ pc' = "procs"
  /\ AppRest({"calls", "ctlCall"})

\* line 115: run_ctl returns, and run_app returns its result
RunCtlReturns ==
  /\ pc = "in_ctl"
  /\ \E r \in {AppOk, AppErr("ctl", "anyhow")} :
       ctlRes' = <<r>> /\ result' = <<r>>
  /\ pc' = "done"
  /\ AppRest({"ctlRes", "result"})

\* lines 118-140: COMMANDS given
ProcsFromCommands ==
  /\ pc = "procs"
  /\ cmds # <<>>
  /\ config' = <<[config[1] EXCEPT !.procs =
                    CliProcs(cmds[1], Names(namesArg), "settings")]>>
  /\ pc' = "rcs"
  /\ AppRest({"config"})

\* lines 141-144: no COMMANDS, --npm
ProcsFromNpm ==
  /\ pc = "procs"
  /\ cmds = <<>>
  /\ npmFlag
  /\ calls' = Append(calls, "load_npm_procs")
  /\ \/ /\ result' = <<AppErr("npm", "anyhow")>>
        /\ pc' = "done"
        /\ UNCHANGED config
     \/ /\ config' = <<[config[1] EXCEPT !.procs = <<NpmProc>>]>>
        /\ pc' = "rcs"
        /\ UNCHANGED result
  /\ AppRest({"calls", "result", "config"})

\* lines 118-146: neither
ProcsFromConfig ==
  /\ pc = "procs"
  /\ cmds = <<>>
  /\ ~npmFlag
  /\ pc' = "rcs"
  /\ AppRest({})

\* line 153: UnixStream::pair() fails
PairFails ==
  /\ pc = "rcs"
  /\ calls' = Append(calls, "run_client_and_server")
  /\ result' = <<AppErr("io", "anyhow")>>
  /\ pc' = "done"
  /\ AppRest({"calls", "result"})

\* lines 153-167: the pair, and the two tasks spawned
SpawnTasks ==
  /\ pc = "rcs"
  /\ calls' = Append(calls, "run_client_and_server")
  /\ pair' = <<Duplex>>
  /\ client' = "running"
  /\ server' = "running"
  /\ srvCfg' = config
  /\ pc' = "await_server"
  /\ AppRest({"calls", "pair", "client", "server", "srvCfg"})

\* server_main ends: it returns Ok, returns an error, or panics
ServerEnds ==
  /\ server = "running"
  /\ \E o \in {"ok", "err", "panic"} : server' = o
  /\ UNCHANGED pc
  /\ AppRest({"server"})

\* client_main ends
ClientEnds ==
  /\ client = "running"
  /\ \E o \in {"ok", "err", "panic"} : client' = o
  /\ UNCHANGED pc
  /\ AppRest({"client"})

\* lines 169-171
AwaitServer ==
  /\ pc = "await_server"
  /\ server # "running"
  /\ r1' = <<JoinResult("server", server)>>
  /\ pc' = "await_client"
  /\ AppRest({"r1"})

\* lines 172-174
AwaitClient ==
  /\ pc = "await_client"
  /\ client # "running"
  /\ r2' = <<JoinResult("client", client)>>
  /\ pc' = "return"
  /\ AppRest({"r2"})

\* lines 176-177, and run_app returning it (line 149)
Return ==
  /\ pc = "return"
  /\ result' = <<MapErrMsg(ResultAnd(r1[1], r2[1]))>>
  /\ pc' = "done"
  /\ AppRest({"result"})

Next ==
  \/ StartupFails \/ Startup \/ ServerOverride \/ CtlDispatch \/ RunCtlReturns
  \/ ProcsFromCommands \/ ProcsFromNpm \/ ProcsFromConfig
  \/ PairFails \/ SpawnTasks \/ ServerEnds \/ ClientEnds
  \/ AwaitServer \/ AwaitClient \/ Return

Spec == Init /\ [][Next]_vars

(***************************************************************************)
(* CfgSpec: Config::from_file on a bounded set of documents, then the      *)
(* conversion of one of the loaded records into a CommandBuilder.          *)
(***************************************************************************)
ShellMap == KV(String("shell"), String("make"))
EnvMap(es) == KV(String("env"), Mapping(es))

\* keys of `procs`: YAML keeps 1 and "1" apart
ProcKeys == {String("a"), String("1"), Number(1)}

\* values of the entries of `procs`
ProcVals ==
  { Null,
    Bool(TRUE),
    Number(1),
    String("make"),
    Sequence(<<>>),
    Sequence(<<String("ls"), String("-l")>>),
    Sequence(<<String("ls"), Number(1)>>),
    Mapping(<<>>),
    Mapping(<<ShellMap, KV(String("cmd"), Sequence(<<String("ls")>>))>>),
    Mapping(<<KV(String("cmd"), Sequence(<<String("ls")>>))>>),
    Mapping(<<ShellMap,
              EnvMap(<<KV(String("K"), String("v")), KV(String("J"), Null)>>)>>),
    Mapping(<<ShellMap,
              EnvMap(<<KV(Number(1), String("v")), KV(String("1"), Null)>>)>>),
    Mapping(<<ShellMap, EnvMap(<<KV(String("K"), Number(1))>>)>>),
    Mapping(<<KV(String("$select"), String("os")),
              KV(String("linux"), String("make")),
              KV(String("$else"), Null)>>),
    Mapping(<<KV(String("$select"), String("arch")),
              KV(String("$else"), String("make"))>>) }

\* the `procs` mappings: up to MaxProcs entries with distinct keys
ProcMaps ==
  UNION { { m \in [1..k -> {KV(key, v) : key \in ProcKeys, v \in ProcVals}] :
              \A i, j \in 1..k : i # j => m[i].k # m[j].k } : k \in 0..MaxProcs }

Docs ==
  { Mapping(<<KV(String("procs"), Mapping(m))>> \o sv) :
      m \in ProcMaps,
      sv \in {<<>>, <<KV(String("server"), String("127.0.0.1:4050"))>>} }
  \cup { Mapping(<<>>),
         Mapping(<<KV(String("server"), Number(1))>>),
         Mapping(<<KV(String("procs"), String("make"))>>),
         Null }

\* environments the program may have inherited
BaseEnvs ==
  { [x \in {"J", "H", "1"} |-> "0"], [x \in {"K"} |-> "0"] }

CfgInit ==
  /\ cpc = "start"
  /\ file \in {"ok", "notfound", "ioerror", "badyaml"}
  /\ doc \in IF file = "ok" THEN Docs ELSE {Null}
  /\ os \in {"linux", "windows"}
  /\ baseEnv = <<>> /\ loadRes = <<>> /\ picked = 0 /\ cmdRes = <<>>
  /\ AppIdle /\ ValIdle

\* Config::from_file
LoadConfig ==
  /\ cpc = "start"
  /\ loadRes' = from_file(file, doc, os)
  /\ cpc' = "loaded"
  /\ UNCHANGED <<file, doc, os, baseEnv, picked, cmdRes, appVars, valVars>>

\* CommandBuilder::from(&cfg) for one record of the loaded Config, in the
\* environment and the directory the program then has
BuildCommand ==
  /\ cpc = "loaded"
  /\ loadRes.kind = "Ok"
  /\ \E i \in 1..Len(loadRes.val.procs), base \in BaseEnvs,
        cur \in {<<>>, <<"/work">>} :
       /\ picked' = i
       /\ baseEnv' = base
       /\ cmdRes' = CommandBuilder_from(loadRes.val.procs[i], os, base, cur)
  /\ cpc' = "built"
  /\ UNCHANGED <<file, doc, os, loadRes, appVars, valVars>>

CfgNext == LoadConfig \/ BuildCommand

CfgSpec == CfgInit /\ [][CfgNext]_vars

(***************************************************************************)
(* ValSpec: Val::new on a bounded set of values.                           *)
(***************************************************************************)
\* values that Val::create returns as they are; in the last one `$select`
\* is a key, but not the first
PlainVals ==
  { Null,
    String("make"),
    Mapping(<<ShellMap>>),
    Mapping(<<KV(String("linux"), String("make")),
              KV(String("$select"), String("os"))>>) }

\* what may stand under `$select`
Selectors == {String("os"), String("arch"), Number(1)}

\* a mapping whose first key is `$select`, with an optional entry for
\* linux and an optional `$else`
SelectMap(sel, lx, el) ==
  Mapping(<<KV(String("$select"), sel)>>
          \o (IF lx = <<>> THEN <<>> ELSE <<KV(String("linux"), lx[1])>>)
          \o (IF el = <<>> THEN <<>> ELSE <<KV(String("$else"), el[1])>>))

Opt(S) == {<<>>} \cup {<<x>> : x \in S}

\* the values with `$select` mappings nested at most d deep
RECURSIVE ValsUpTo(_)
ValsUpTo(d) ==
  IF d = 0 THEN PlainVals
  ELSE LET inner == ValsUpTo(d - 1)
       IN PlainVals
          \cup { SelectMap(sel, lx, el) :
                   sel \in Selectors, lx \in Opt(inner), el \in Opt(PlainVals) }
          \cup { SelectMap(sel, lx, el) :
                   sel \in Selectors, lx \in Opt(PlainVals), el \in Opt(inner) }

\* val ranges over ValsUpTo(MaxDepth), its three parts one by one
ValInit ==
  /\ vpc = "start"
  /\ \/ val \in PlainVals
     \/ \E sel \in Selectors, lx \in Opt(ValsUpTo(MaxDepth - 1)),
           el \in Opt(PlainVals) : val = SelectMap(sel, lx, el)
     \/ \E sel \in Selectors, lx \in Opt(PlainVals),
           el \in Opt(ValsUpTo(MaxDepth - 1)) : val = SelectMap(sel, lx, el)
  /\ os \in {"linux", "windows"}
  /\ valRes = <<>>
  /\ AppIdle /\ CfgIdle

\* Val::new(&value)
CreateVal ==
  /\ vpc = "start"
  /\ valRes' = Val_new(val, os)
  /\ vpc' = "created"
  /\ UNCHANGED <<val, os, appVars, cfgVars>>

ValNext == CreateVal

ValSpec == ValInit /\ [][ValNext]_vars

(***************************************************************************)
(* Properties of run_app and run_client_and_server, checked under Spec.    *)
(***************************************************************************)
Called(fn) == fn \in Range(calls)

\* With --ctl, the invoking process starts nothing of its own.
StartsNothing ==
  /\ ~Called("run_client_and_server")
  /\ ~Called("load_npm_procs")
  /\ server = "none" /\ client = "none" /\ srvCfg = <<>>
  /\ config # <<>> => config[1].procs = fileCfg[1].procs

\* run_app has returned what run_ctl returned, run_ctl having been given
\* the payload of --ctl
ReturnedFromCtl ==
  /\ calls = <<"run_ctl">>
  /\ ctlCall # <<>> /\ ctlCall[1].payload = ctlArg[1]
  /\ ctlRes # <<>> /\ result = ctlRes

\* C1, as stated: whenever --ctl is given, run_app hands the payload to
\* run_ctl and returns its result; the process list is never built from
\* COMMANDS or --npm, run_client_and_server is never called and no server or
\* client task is started.
C1_CtlAlwaysReachesRunCtl ==
  ctlArg # <<>> =>
    /\ StartsNothing
    /\ pc = "done" => ReturnedFromCtl

\* C1, amended: whenever --ctl is given, the process list is never built from
\* COMMANDS or --npm, run_client_and_server is never called and no server or
\* client task is started; and when loading the configuration, the settings
\* and the keymap (lines 84-108) did not fail, run_app hands the payload to
\* run_ctl and returns its result.
C1_CtlIsPureClient ==
  ctlArg # <<>> =>
    /\ StartsNothing
    /\ (pc = "done" /\ fileCfg # <<>>) => ReturnedFromCtl

\* --ctl given together with COMMANDS and --npm, and run_app has returned
\* the result of run_ctl
C1_Witness ==
  /\ pc = "done" /\ ctlArg # <<>> /\ cmds # <<>> /\ npmFlag
  /\ ctlRes # <<>> /\ result = ctlRes

\* C6: when run_ctl is called, the server address of the Config it is given
\* is the one of --server if --server was given, and the one of the config
\* file otherwise.
C6_CtlTargetsServerArg ==
  ctlCall # <<>> =>
    ctlCall[1].config.server =
      IF serverArg # <<>> THEN <<Tcp(serverArg[1])>> ELSE fileCfg[1].server

\* run_ctl was called with --server given and another address in the file
C6_Witness ==
  /\ ctlCall # <<>> /\ serverArg # <<>>
  /\ fileCfg[1].server # <<>>
  /\ fileCfg[1].server # <<Tcp(serverArg[1])>>
  /\ ctlCall[1].config.server = <<Tcp(serverArg[1])>>

\* the comma-separated entries of a string, said without splitting it:
\* entry i lies between comma i-1 and comma i
Commas(str) == {i \in 1..Len(str) : str[i] = ","}
NumEntries(str) == Cardinality(Commas(str)) + 1
NthComma(str, n) ==
  CHOOSE q \in Commas(str) : Cardinality({h \in Commas(str) : h <= q}) = n
NthEntry(str, i) ==
  SubSeq(str,
         IF i = 1 THEN 1 ELSE NthComma(str, i - 1) + 1,
         IF i = NumEntries(str) THEN Len(str) ELSE NthComma(str, i) - 1)

\* C7: with COMMANDS given, the processes the server is started with are
\* one shell-form process with autostart per command, in order, and no
\* other (none of the config file, none for a surplus name, and
\* load_npm_procs is not called); process i has the name of the i-th
\* comma-separated entry of --names when there is one, and its command text
\* otherwise.
C7_CommandsBecomeProcs ==
  (srvCfg # <<>> /\ cmds # <<>>) =>
    LET ps == srvCfg[1].procs
        list == cmds[1]
    IN /\ Len(ps) = Len(list)
       /\ ~Called("load_npm_procs")
       /\ \A i \in 1..Len(list) :
            /\ ps[i].cmd.kind = "Shell"
            /\ ps[i].cmd.shell = list[i]
            /\ ps[i].autostart = TRUE
            /\ ps[i].name =
                 IF namesArg # <<>> /\ i <= NumEntries(namesArg[1])
                 THEN NthEntry(namesArg[1], i)
                 ELSE list[i]

\* two commands and one name, with processes in the config file and --npm
C7_Witness ==
  /\ srvCfg # <<>> /\ cmds # <<>> /\ Len(cmds[1]) = 2
  /\ namesArg # <<>> /\ NumEntries(namesArg[1]) = 1 /\ namesArg[1] # <<>>
  /\ fileCfg[1].procs # <<>> /\ npmFlag
  /\ srvCfg[1].procs[1].name = namesArg[1]
  /\ srvCfg[1].procs[2].name = cmds[1][2]

\* C8: the two tasks are spawned together, joined by one duplex pair on
\* which the client sends CltToSrv and receives SrvToClt and the server the
\* reverse; when run_client_and_server has returned no task is still
\* running; it returned success iff both tasks succeeded (a task that
\* panicked, or never ran, did not), and when the server task failed the
\* error returned is the server's.
C8_JoinsBothTasks ==
  /\ (server = "none") <=> (client = "none")
  /\ server # "none" =>
       /\ pair # <<>>
       /\ pair[1].client.send = "CltToSrv" /\ pair[1].server.recv = "CltToSrv"
       /\ pair[1].server.send = "SrvToClt" /\ pair[1].client.recv = "SrvToClt"
  /\ (pc = "done" /\ Called("run_client_and_server")) =>
       /\ server # "running" /\ client # "running"
       /\ result[1].ok <=> (server = "ok" /\ client = "ok")
       /\ server \in {"err", "panic"} =>
            /\ ~result[1].ok
            /\ result[1].err[1] = "server"
            /\ result[1].err[2] = IF server = "panic" THEN "panicked" ELSE "failed"
       /\ client = "panic" => ~result[1].ok

\* both tasks failed, the client by a panic, and run_client_and_server has
\* returned the server's error
C8_Witness ==
  /\ pc = "done" /\ server = "err" /\ client = "panic"
  /\ result # <<>> /\ result[1].err = <<"server", "failed">>


(***************************************************************************)
(* Properties of Config::from_file and of the conversion into a            *)
(* CommandBuilder, checked under CfgSpec.                                  *)
(***************************************************************************)
Loaded == cpc \in {"loaded", "built"} /\ loadRes.kind = "Ok"
Distinct(names) ==
  \A i, j \in 1..Len(names) : i # j => names[i] # names[j]

\* C3, as stated: in every Config the program produces, from the `procs` of
\* a config file (CfgSpec) or from COMMANDS (Spec), the names of the
\* processes are pairwise distinct.
C3_NamesDistinct ==
  /\ Loaded =>
       Distinct([i \in 1..Len(loadRes.val.procs) |-> loadRes.val.procs[i].name])
  /\ srvCfg # <<>> =>
       Distinct([i \in 1..Len(srvCfg[1].procs) |-> srvCfg[1].procs[i].name])

\* the entries of the `procs` mapping of the document, as written
RawProcs ==
  IF doc.t = "mapping" /\ MapGet(doc.items, String("procs")) # <<>>
     /\ MapGet(doc.items, String("procs"))[1].t = "mapping"
  THEN MapGet(doc.items, String("procs"))[1].items
  ELSE <<>>

\* the malformed entries C4 lists, read off the value as written
NonString(items) == \E i \in 1..Len(items) : items[i].t # "string"
Malformed(v) ==
  \/ v.t \in {"bool", "number"}
  \/ v.t = "sequence" /\ NonString(v.items)
  \/ /\ v.t = "mapping"
     /\ ~FirstKeyIsSelect(v)
     /\ LET shell == MapGet(v.items, String("shell"))
            cmd == MapGet(v.items, String("cmd"))
            env == MapGet(v.items, String("env"))
        IN \/ shell = <<>> /\ cmd = <<>>
           \/ shell # <<>> /\ cmd # <<>>
           \/ cmd # <<>> /\ cmd[1].t = "sequence" /\ NonString(cmd[1].items)
           \/ /\ env # <<>> /\ env[1].t = "mapping"
              /\ \E i \in 1..Len(env[1].items) :
                   env[1].items[i].v.t \notin {"string", "null"}

\* C4, as stated: a document with a malformed process entry makes
\* Config::from_file return an error; it ends in no other way.
C4_MalformedIsError ==
  (cpc = "loaded" /\ \E i \in 1..Len(RawProcs) : Malformed(RawProcs[i].v))
    => loadRes.kind = "Err"

\* C5, as stated: every record the loader accepts is converted without a
\* panic; an Argv record with list l gives program l[0] and arguments
\* l[1..], a ShellLine record with line s gives `sh -c s`, or `cmd /C s` on
\* Windows.
C5_ConversionNeverAborts ==
  cpc = "built" =>
    /\ cmdRes.kind = "Ok"
    /\ LET rec == loadRes.val.procs[picked]
       IN cmdRes.val.argv =
            IF rec.cmd.kind = "Cmd" THEN rec.cmd.cmd
            ELSE IF os = "windows" THEN <<"cmd", "/C", rec.cmd.shell>>
                 ELSE <<"sh", "-c", rec.cmd.shell>>

\* the overrides of the record that was converted
Overrides ==
  LET rec == loadRes.val.procs[picked]
  IN IF rec.env = <<>> THEN <<>> ELSE rec.env[1]

\* C2: the environment of the command built from a record is the inherited
\* one with the overrides of the record on top: a key with Some(value) is
\* set to the value, a key with None is absent, and a key the record does
\* not mention is as it was inherited.
C2_EnvIsInheritedPlusOverrides ==
  (cpc = "built" /\ cmdRes.kind = "Ok") =>
    LET env == cmdRes.val.env
        keys == (DOMAIN env) \cup (DOMAIN baseEnv)
                  \cup {Overrides[i].k : i \in 1..Len(Overrides)}
    IN \A key \in keys :
         IF \E i \in 1..Len(Overrides) : Overrides[i].k = key
         THEN \A i \in 1..Len(Overrides) :
                Overrides[i].k = key =>
                  IF Overrides[i].v # <<>>
                  THEN key \in DOMAIN env /\ env[key] = Overrides[i].v[1]
                  ELSE key \notin DOMAIN env
         ELSE /\ key \in DOMAIN env <=> key \in DOMAIN baseEnv
              /\ key \in DOMAIN env => env[key] = baseEnv[key]

\* a record that sets K, which was not inherited, and unsets the inherited
\* J, converted in an environment that also holds H
C2_Witness ==
  /\ cpc = "built" /\ cmdRes.kind = "Ok"
  /\ \E i, j \in 1..Len(Overrides) :
       /\ Overrides[i].k = "K" /\ Overrides[i].v = <<"v">>
       /\ Overrides[j].k = "J" /\ Overrides[j].v = <<>>
  /\ DOMAIN baseEnv = {"J", "H", "1"}
  /\ DOMAIN cmdRes.val.env = {"K", "H", "1"}

\* the entries of `procs` whose resolved value is not null, by position
KeptEntries ==
  {i \in 1..Len(RawProcs) : Val_new(RawProcs[i].v, os).val.v.t # "null"}
NthKept(n) ==
  CHOOSE i \in KeptEntries : Cardinality({h \in KeptEntries : h <= i}) = n

\* C9: the processes Config::from_file returns are the entries of `procs`
\* in the order of the file, without exactly those whose value (resolved)
\* is null; a file with no `procs` key gives no process.
C9_ProcsInFileOrder ==
  Loaded =>
    LET ps == loadRes.val.procs
    IN /\ Len(ps) = Cardinality(KeptEntries)
       /\ \A n \in 1..Len(ps) :
            LET e == RawProcs[NthKept(n)]
            IN /\ ps[n].name = value_to_string(e.k).val
               /\ <<ps[n]>> = from_val(ps[n].name, Val_new(e.v, os).val, os).val
       /\ MapGet(doc.items, String("procs")) = <<>> => ps = <<>>

\* two entries, the first with the value null: only the second is returned
C9_Witness ==
  /\ Loaded
  /\ Len(RawProcs) = 2
  /\ RawProcs[1].v = Null
  /\ Len(loadRes.val.procs) = 1
  /\ loadRes.val.procs[1].name = value_to_string(RawProcs[2].k).val

(***************************************************************************)
(* Properties of Val::create, checked under ValSpec.                       *)
(***************************************************************************)
\* the value a `$select` mapping chooses on this OS, read off the mapping:
\* the entry of the OS name if there is one, else the one of `$else`
Chosen(map) ==
  IF MapGet(map.items, String(os)) # <<>>
  THEN MapGet(map.items, String(os))
  ELSE MapGet(map.items, String("$else"))

\* C10: Val::new of a mapping whose first key is `$select` is an error when
\* the value of `$select` is not `os` or when there is neither an entry for
\* the OS name nor `$else`, and otherwise what Val::new gives for the chosen
\* entry (that of the OS name first, then `$else`); any other value is
\* returned as it is; a Val that was created never holds a mapping whose
\* first key is `$select`.
C10_SelectResolved ==
  vpc = "created" =>
    /\ ~FirstKeyIsSelect(val) =>
         valRes.kind = "Ok" /\ valRes.val.v = val /\ valRes.val.trace = <<>>
    /\ FirstKeyIsSelect(val) =>
         IF val.items[1].v # String("os")
         THEN valRes.kind = "Err" /\ valRes.msg = "Expected os"
         ELSE IF Chosen(val) = <<>>
              THEN valRes.kind = "Err"
                   /\ valRes.msg = "No matching condition found"
              ELSE /\ valRes.kind = Val_new(Chosen(val)[1], os).kind
                   /\ valRes.msg = Val_new(Chosen(val)[1], os).msg
                   /\ valRes.kind = "Ok" =>
                        valRes.val.v = Val_new(Chosen(val)[1], os).val.v
    /\ valRes.kind = "Ok" => ~FirstKeyIsSelect(valRes.val.v)

\* a `$select` mapping whose chosen entry is a `$select` mapping again, and
\* a Val was created
C10_Witness ==
  /\ vpc = "created"
  /\ FirstKeyIsSelect(val)
  /\ val.items[1].v = String("os")
  /\ Chosen(val) # <<>>
  /\ FirstKeyIsSelect(Chosen(val)[1])
  /\ valRes.kind = "Ok"
  /\ MapGet(val.items, String(os)) = <<>>

====
